---- MODULE Spec2Model ----
(***************************************************************************)
(* Model of the text utilities of the hw4 repository:                      *)
(*   part-2-code/prompting_utils.py  extract_sql_query (regex cascade)     *)
(*   part-1-code/utils.py            typo_transform, synonym_replacement   *)
(* A Python str is modelled as a sequence of one-character strings, so     *)
(* that the regular expressions and the str methods are computed           *)
(* character by character.                                                 *)
(***************************************************************************)
EXTENDS Integers, Sequences, FiniteSets, TLC

VARIABLES
  pc,          \* position of the running call
  result,      \* value the call returned
  response,    \* extract_sql_query: its argument
  consulted,   \* extract_sql_query: the steps tried so far
  decided,     \* extract_sql_query: the step that returned
  sentence,    \* typo_transform, synonym_replacement: the argument
  prob,        \* typo_transform, synonym_replacement: prob, in hundredths
  words,       \* typo_transform, synonym_replacement: the list words
  new_words,   \* typo_transform, synonym_replacement: the list new_words
  args,        \* train: the parsed command line
  epoch,       \* train: the loop variable
  best_f1,     \* train: best score so far, in tenths
  epochs_since_improvement,  \* train: the patience counter
  eval_loss,   \* train: dev loss of the current epoch, in tenths
  record_f1,   \* train: score of the current epoch, in tenths
  best_saves,  \* train: number of save_model(..., best=True) calls
  last_saves,  \* train: number of save_model(..., best=False) calls
  log,         \* train: what each finished epoch did
  examples,    \* eval_epoch: per dev example, the ground truth and the prediction
  model_records,  \* eval_epoch: the saved records and messages of the predictions
  error_msgs,  \* eval_epoch: the messages compute_metrics returned
  metrics,     \* eval_epoch: the scores computed so far
  split,       \* process_data: the split to load, and use_schema
  nl_file,     \* process_data: the lines of <split>.nl
  sql_file,    \* process_data: the lines of <split>.sql
  nl_queries,  \* process_data: the loaded natural-language lines
  sql_queries, \* process_data: the loaded SQL lines
  processed_data,  \* process_data: the examples tokenized so far
  tokenizer_calls,  \* process_data: number of calls of the tokenizer
  batch,       \* collate functions: the argument, and which function runs
  encoder_ids,     \* collate functions: the padded encoder ids
  encoder_mask,    \* collate functions: the attention mask
  decoder_inputs,  \* normal_collate_fn: the padded decoder ids
  decoder_labels   \* normal_collate_fn: the labels

\* state of a call of extract_sql_query
exVars == <<response, consulted, decided>>

\* state of a call of typo_transform or synonym_replacement
txVars == <<sentence, prob, words, new_words>>

\* state of a call of train
trVars == <<args, epoch, best_f1, epochs_since_improvement, eval_loss,
            record_f1, best_saves, last_saves, log>>

\* state of the metric computation of eval_epoch
evVars == <<examples, model_records, error_msgs, metrics>>

\* state of a call of T5Dataset.process_data
ldVars == <<split, nl_file, sql_file, nl_queries, sql_queries,
            processed_data, tokenizer_calls>>

\* state of a call of normal_collate_fn or test_collate_fn
clVars == <<batch, encoder_ids, encoder_mask, decoder_inputs, decoder_labels>>

\* state of the part-2 programs
p2Vars == <<trVars, evVars, ldVars, clVars>>

vars == <<pc, result, exVars, txVars, p2Vars>>

\* the variables of a call that is not running
ExIdle == response = <<>> /\ consulted = {} /\ decided = 0

TxIdle == sentence = <<>> /\ prob = 0 /\ words = <<>> /\ new_words = <<>>

TrIdle ==
  /\ args = <<>>
  /\ epoch = 0
  /\ best_f1 = 0
  /\ epochs_since_improvement = 0
  /\ eval_loss = 0
  /\ record_f1 = 0
  /\ best_saves = 0
  /\ last_saves = 0
  /\ log = <<>>

EvIdle ==
  /\ examples = <<>>
  /\ model_records = <<>>
  /\ error_msgs = <<>>
  /\ metrics = <<>>

LdIdle ==
  /\ split = <<>>
  /\ nl_file = <<>>
  /\ sql_file = <<>>
  /\ nl_queries = <<>>
  /\ sql_queries = <<>>
  /\ processed_data = <<>>
  /\ tokenizer_calls = 0

ClIdle ==
  /\ batch = <<>>
  /\ encoder_ids = <<>>
  /\ encoder_mask = <<>>
  /\ decoder_inputs = <<>>
  /\ decoder_labels = <<>>

P2Idle == TrIdle /\ EvIdle /\ LdIdle /\ ClIdle

-----------------------------------------------------------------------------
(* Bounds of the model                                                     *)

\* number of pieces a response is assembled from
MaxPieces == 4

-----------------------------------------------------------------------------
(* Characters and the str methods used by the code                         *)

NL == "\n"

\* characters matched by \s and removed by str.strip()
Whitespace == {" ", NL, "\t", "\r"}

LowerLetters ==
  <<"a","b","c","d","e","f","g","h","i","j","k","l","m",
    "n","o","p","q","r","s","t","u","v","w","x","y","z">>

UpperLetters ==
  <<"A","B","C","D","E","F","G","H","I","J","K","L","M",
    "N","O","P","Q","R","S","T","U","V","W","X","Y","Z">>

LowerSet == {LowerLetters[i] : i \in 1..26}

UpperSet == {UpperLetters[i] : i \in 1..26}

UpperOf == [c \in LowerSet |-> UpperLetters[CHOOSE i \in 1..26 : LowerLetters[i] = c]]

LowerOf == [c \in UpperSet |-> LowerLetters[CHOOSE i \in 1..26 : UpperLetters[i] = c]]

\* str.upper() on one character
ToUpper(c) == IF c \in LowerSet THEN UpperOf[c] ELSE c

\* str.lower() on one character
ToLower(c) == IF c \in UpperSet THEN LowerOf[c] ELSE c

\* str.upper()
Upper(s) == [i \in 1..Len(s) |-> ToUpper(s[i])]

\* str.lower()
Lower(s) == [i \in 1..Len(s) |-> ToLower(s[i])]

Min(S) == CHOOSE x \in S : \A y \in S : x <= y

Max(S) == CHOOSE x \in S : \A y \in S : x >= y

\* s[a..b] as a string (empty when b < a)
Slice(s, a, b) == IF b < a THEN <<>> ELSE SubSeq(s, a, b)

\* the literal lit occurs in s at position i, case-sensitively
HasAt(s, i, lit) ==
  /\ i >= 1
  /\ i + Len(lit) - 1 <= Len(s)
  /\ \A k \in 1..Len(lit) : s[i + k - 1] = lit[k]

\* the literal lit occurs in s at position i under re.IGNORECASE
HasAtI(s, i, lit) ==
  /\ i >= 1
  /\ i + Len(lit) - 1 <= Len(s)
  /\ \A k \in 1..Len(lit) : ToUpper(s[i + k - 1]) = ToUpper(lit[k])

\* first position >= i that holds no whitespace (Len(s)+1 when none): where a
\* greedy \s* that starts at i stops
SkipWs(s, i) ==
  Min({j \in i..(Len(s) + 1) : j = Len(s) + 1 \/ s[j] \notin Whitespace})

\* str.strip()
Strip(s) ==
  LET a == SkipWs(s, 1)
      b == Max({j \in 0..Len(s) : j = 0 \/ s[j] \notin Whitespace})
  IN  Slice(s, a, b)

\* str.rstrip(';')
RStripSemi(s) ==
  Slice(s, 1, Max({j \in 0..Len(s) : j = 0 \/ s[j] # ";"}))

\* str.startswith
StartsWith(s, lit) == HasAt(s, 1, lit)

-----------------------------------------------------------------------------
(* extract_sql_query: the regular expressions                              *)

\* the backtick character, which a TLA+ string literal cannot hold
BT == "<backtick>"

Fence == <<BT, BT, BT>>

SqlFence == <<BT, BT, BT, "s", "q", "l">>

Select == <<"S","E","L","E","C","T">>

\* result of re.search: found, and the span of group(1) as positions first..last
NoMatch == [found |-> FALSE, first |-> 0, last |-> 0]

Found(a, b) == [found |-> TRUE, first |-> a, last |-> b]

\* the tail \s*``` of both code block patterns matches at position e
ClosesAt(s, e) == HasAt(s, SkipWs(s, e), Fence)

\* \s*(.*?)\s*``` tried at position a, right after the opening fence: the
\* greedy \s* takes the longest run of whitespace that still lets the rest
\* match, the lazy group the shortest text after which \s*``` matches
BlockGroup(s, a) ==
  LET ks == {k \in a..SkipWs(s, a) : \E e \in k..(Len(s) + 1) : ClosesAt(s, e)}
  IN  IF ks = {} THEN NoMatch
      ELSE LET k == Max(ks)
               e == Min({x \in k..(Len(s) + 1) : ClosesAt(s, x)})
           IN  Found(k, e - 1)

\* sql_block_pattern with a greedy group, (.*) for (.*?): the content runs to
\* the last closing fence
sql_block_pattern_greedy(s) ==
  LET starts == {i \in 1..Len(s) :
                   HasAtI(s, i, SqlFence) /\ BlockGroup(s, i + Len(SqlFence)).found}
  IN  IF starts = {} THEN NoMatch
      ELSE LET k == BlockGroup(s, Min(starts) + Len(SqlFence)).first
               e == Max({x \in k..(Len(s) + 1) : HasAt(s, x, Fence)})
           IN  Found(k, e - 1)

\* re.search(r'```sql\s*(.*?)\s*```', s, re.DOTALL | re.IGNORECASE): the
\* leftmost position at which the pattern matches
sql_block_pattern(s) ==
  LET starts == {i \in 1..Len(s) :
                   HasAtI(s, i, SqlFence) /\ BlockGroup(s, i + Len(SqlFence)).found}
  IN  IF starts = {} THEN NoMatch ELSE BlockGroup(s, Min(starts) + Len(SqlFence))

\* re.search(r'```\s*(.*?)\s*```', s, re.DOTALL)
code_block_pattern(s) ==
  LET starts == {i \in 1..Len(s) :
                   HasAt(s, i, Fence) /\ BlockGroup(s, i + Len(Fence)).found}
  IN  IF starts = {} THEN NoMatch ELSE BlockGroup(s, Min(starts) + Len(Fence))

\* TermAt without the semicolon of the alternation
TermAt_NoSemicolon(s, e) ==
  \/ e = Len(s) + 1
  \/ (s[e] = NL /\ e + 1 <= Len(s) /\ s[e + 1] = NL)
  \/ (e = Len(s) /\ s[e] = NL)

\* the alternation (?:;|\n\n|$) matches at position e; without re.MULTILINE
\* $ matches at the end of the string and before a newline that ends it
TermAt(s, e) ==
  \/ e = Len(s) + 1
  \/ s[e] = ";"
  \/ (s[e] = NL /\ e + 1 <= Len(s) /\ s[e + 1] = NL)
  \/ (e = Len(s) /\ s[e] = NL)

\* SELECT\s+ matches at position i under re.IGNORECASE
SelectAt(s, i) ==
  /\ HasAtI(s, i, Select)
  /\ i + Len(Select) <= Len(s)
  /\ s[i + Len(Select)] \in Whitespace

\* (SELECT\s+.*?)(?:;|\n\n|$) tried at position i where SelectAt holds: the
\* greedy \s+ takes the whole run of whitespace (the terminator $ always lets
\* the rest match), the lazy .*? stops before the first terminator after it
SelectGroup(s, i) ==
  LET k == SkipWs(s, i + Len(Select) + 1)
      e == Min({x \in k..(Len(s) + 1) : TermAt(s, x)})
  IN  Found(i, e - 1)

\* select_pattern without re.IGNORECASE
select_pattern_cs(s) ==
  LET starts == {i \in 1..Len(s) : SelectAt(s, i) /\ HasAt(s, i, Select)}
  IN  IF starts = {} THEN NoMatch ELSE SelectGroup(s, Min(starts))

\* select_pattern that takes the last SELECT of the response, not the first
select_pattern_last(s) ==
  LET starts == {i \in 1..Len(s) : SelectAt(s, i)}
  IN  IF starts = {} THEN NoMatch ELSE SelectGroup(s, Max(starts))

\* re.search(r'(SELECT\s+.*?)(?:;|\n\n|$)', s, re.DOTALL | re.IGNORECASE)
select_pattern(s) ==
  LET starts == {i \in 1..Len(s) : SelectAt(s, i)}
  IN  IF starts = {} THEN NoMatch ELSE SelectGroup(s, Min(starts))

\* the labels of r'(?:SQL query|Query|Answer|Solution|Result):\s*' and of
\* r'(?:Here is the|The) (?:SQL query|query):\s*', each with its colon
prefixes ==
  << { <<"S","Q","L"," ","q","u","e","r","y",":">>,
       <<"Q","u","e","r","y",":">>,
       <<"A","n","s","w","e","r",":">>,
       <<"S","o","l","u","t","i","o","n",":">>,
       <<"R","e","s","u","l","t",":">> },
     { <<"H","e","r","e"," ","i","s"," ","t","h","e"," ","S","Q","L"," ","q","u","e","r","y",":">>,
       <<"H","e","r","e"," ","i","s"," ","t","h","e"," ","q","u","e","r","y",":">>,
       <<"T","h","e"," ","S","Q","L"," ","q","u","e","r","y",":">>,
       <<"T","h","e"," ","q","u","e","r","y",":">> } >>

\* position of the SELECT that follows a label of labels matched at i, or 0
AfterPrefix(s, i, labels) ==
  IF \E L \in labels : HasAtI(s, i, L) /\ SelectAt(s, SkipWs(s, i + Len(L)))
  THEN LET L == CHOOSE L \in labels :
                  HasAtI(s, i, L) /\ SelectAt(s, SkipWs(s, i + Len(L)))
       IN  SkipWs(s, i + Len(L))
  ELSE 0

\* re.search(prefix + r'(SELECT\s+.*?)(?:;|\n\n|$)', s, re.DOTALL | re.IGNORECASE)
prefix_pattern(s, labels) ==
  LET starts == {i \in 1..Len(s) : AfterPrefix(s, i, labels) # 0}
  IN  IF starts = {} THEN NoMatch
      ELSE SelectGroup(s, AfterPrefix(s, Min(starts), labels))

\* the loop over prefixes: the first pattern of the list that matches
prefix_search(s) ==
  IF prefix_pattern(s, prefixes[1]).found THEN prefix_pattern(s, prefixes[1])
  ELSE prefix_pattern(s, prefixes[2])

\* the labels of r'^(?:Here is|The answer is|The SQL query is|Query):\s*'
wrappers ==
  { <<"H","e","r","e"," ","i","s",":">>,
    <<"T","h","e"," ","a","n","s","w","e","r"," ","i","s",":">>,
    <<"T","h","e"," ","S","Q","L"," ","q","u","e","r","y"," ","i","s",":">>,
    <<"Q","u","e","r","y",":">> }

\* re.sub(r'^(?:Here is|The answer is|The SQL query is|Query):\s*', '', s,
\* flags=re.IGNORECASE): ^ matches at the start of the string only
remove_wrapper(s) ==
  IF \E L \in wrappers : HasAtI(s, 1, L)
  THEN LET L == CHOOSE L \in wrappers : HasAtI(s, 1, L)
       IN  Slice(s, SkipWs(s, Len(L) + 1), Len(s))
  ELSE s

\* match.group(1)
Group(s, m) == Slice(s, m.first, m.last)

\* match.group(1) without the .strip()
GroupStrip_NoStrip(s, m) == Group(s, m)

\* match.group(1).strip()
GroupStrip(s, m) == Strip(Group(s, m))

\* the value returned by step 4 and, after remove_wrapper, by step 6
clean_end(s) == Strip(RStripSemi(Strip(s)))

-----------------------------------------------------------------------------
(* extract_sql_query: the six steps, one action each                       *)

\* the strings the responses are assembled from
Pieces ==
  { Fence,
    SqlFence,
    <<"S","E","L","E","C","T">>,
    <<"s","e","l","e","c","t"," ","a">>,
    <<" ">>,
    <<NL>>,
    <<";">>,
    <<"Q","u","e","r","y",":">>,
    <<"x">> }

RECURSIVE Concat(_)
Concat(ps) == IF ps = <<>> THEN <<>> ELSE Head(ps) \o Concat(Tail(ps))

Responses == {Concat(ps) : ps \in UNION {[1..n -> Pieces] : n \in 0..MaxPieces}}

Steps == {"pattern1", "pattern2", "pattern3", "pattern4", "pattern5", "fallback"}

ExInit ==
  /\ response \in Responses
  /\ pc = "pattern1"
  /\ result = <<>>
  /\ consulted = {}
  /\ decided = 0
  /\ sentence = <<>>
  /\ prob = 0
  /\ words = <<>>
  /\ new_words = <<>>
  /\ P2Idle

\* return v from step n
Return(n, v) ==
  /\ result' = v
  /\ decided' = n
  /\ pc' = "done"

\* the step does not apply: control falls through to the step at label next
FallThrough(next) ==
  /\ pc' = next
  /\ UNCHANGED <<result, decided, p2Vars>>

\* the call leaves by an exception instead of a return
Raise ==
  /\ pc' = "raised"
  /\ UNCHANGED <<result, decided, p2Vars>>

\* Matched without the test for None
Matched_always(match) == TRUE

\* "if match:" is true of a match object and false of None
Matched(match) == match.found

\* "return match.group(1).strip()" at step n; on None, .group raises
ReturnGroup(n, s, match) ==
  IF match.found THEN Return(n, GroupStrip(s, match)) ELSE Raise

\* LooksLikeSql without the .upper()
LooksLikeSql_cs(content) == StartsWith(content, Select)

\* content.upper().startswith('SELECT')
LooksLikeSql(content) == StartsWith(Upper(content), Select)

\* Pattern 1: SQL between ```sql ... ```
Pattern1 ==
  /\ pc = "pattern1"
  /\ consulted' = consulted \cup {1}
  /\ LET match == sql_block_pattern(response)
     IN  IF Matched(match) THEN ReturnGroup(1, response, match)
         ELSE FallThrough("pattern2")
  /\ UNCHANGED <<response, txVars, p2Vars>>

\* Pattern 2: SQL between generic code blocks, when it looks like SQL
Pattern2 ==
  /\ pc = "pattern2"
  /\ consulted' = consulted \cup {2}
  /\ LET match == code_block_pattern(response)
         content == GroupStrip(response, match)
     IN  IF Matched(match)
         THEN IF ~match.found THEN Raise
              ELSE IF LooksLikeSql(content) THEN Return(2, content)
              ELSE FallThrough("pattern3")
         ELSE FallThrough("pattern3")
  /\ UNCHANGED <<response, txVars, p2Vars>>

\* Pattern 3: a SELECT statement directly in the response
Pattern3 ==
  /\ pc = "pattern3"
  /\ consulted' = consulted \cup {3}
  /\ LET match == select_pattern(response)
     IN  IF Matched(match) THEN ReturnGroup(3, response, match)
         ELSE FallThrough("pattern4")
  /\ UNCHANGED <<response, txVars, p2Vars>>

\* Pattern 4: the response starts with SELECT
Pattern4 ==
  /\ pc = "pattern4"
  /\ consulted' = consulted \cup {4}
  /\ IF LooksLikeSql(Strip(response)) THEN Return(4, clean_end(response))
     ELSE FallThrough("pattern5")
  /\ UNCHANGED <<response, txVars, p2Vars>>

\* Pattern 5: common LLM prefixes
Pattern5 ==
  /\ pc = "pattern5"
  /\ consulted' = consulted \cup {5}
  /\ LET match == prefix_search(response)
     IN  IF Matched(match) THEN ReturnGroup(5, response, match)
         ELSE FallThrough("fallback")
  /\ UNCHANGED <<response, txVars, p2Vars>>

\* nothing found: the cleaned response
Fallback ==
  /\ pc = "fallback"
  /\ consulted' = consulted \cup {6}
  /\ Return(6, clean_end(remove_wrapper(Strip(response))))
  /\ UNCHANGED <<response, txVars, p2Vars>>

ExNext == Pattern1 \/ Pattern2 \/ Pattern3 \/ Pattern4 \/ Pattern5 \/ Fallback

SpecExtract == ExInit /\ [][ExNext]_vars

\* the whole function, as the composition of its steps
extract_sql_query(s) ==
  LET m1 == sql_block_pattern(s)
      m2 == code_block_pattern(s)
      content == GroupStrip(s, m2)
      m3 == select_pattern(s)
      m5 == prefix_search(s)
  IN  IF m1.found THEN GroupStrip(s, m1)
      ELSE IF m2.found /\ LooksLikeSql(content) THEN content
      ELSE IF m3.found THEN GroupStrip(s, m3)
      ELSE IF LooksLikeSql(Strip(s)) THEN clean_end(s)
      ELSE IF m5.found THEN GroupStrip(s, m5)
      ELSE clean_end(remove_wrapper(Strip(s)))

-----------------------------------------------------------------------------
(* extract_sql_query: properties                                           *)

EndsWithSemi(s) == Len(s) > 0 /\ s[Len(s)] = ";"

HasSemi(s) == \E i \in 1..Len(s) : s[i] = ";"

HasBlankLine(s) == \E i \in 1..(Len(s) - 1) : s[i] = NL /\ s[i + 1] = NL

NoEdgeWhitespace(s) ==
  Len(s) > 0 => (s[1] \notin Whitespace /\ s[Len(s)] \notin Whitespace)

HasFence(s) == \E i \in 1..Len(s) : HasAt(s, i, Fence)

\* position of the first fence at or after i, Len(s)+1 when there is none
NextFence(s, i) ==
  IF i > Len(s) THEN Len(s) + 1
  ELSE Min({j \in i..(Len(s) + 1) : j = Len(s) + 1 \/ HasAt(s, j, Fence)})

\* positions of the opening fences tagged sql that a later fence closes
SqlBlocks(s) ==
  {i \in 1..Len(s) : HasAtI(s, i, SqlFence) /\ NextFence(s, i + 6) <= Len(s)}

\* what lies between the first such opening fence and the next fence
SqlBlockContent(s) ==
  LET i == Min(SqlBlocks(s)) IN Slice(s, i + 6, NextFence(s, i + 6) - 1)

\* the response has a fence that a later fence closes
HasGenericBlock(s) == NextFence(s, NextFence(s, 1) + 3) <= Len(s)

\* what lies between the first fence and the next one, trimmed
GenericBlockContent(s) ==
  LET i == NextFence(s, 1) IN Strip(Slice(s, i + 3, NextFence(s, i + 3) - 1))

\* positions of the SELECT statements that directly follow a prefix label
LabelledSelects(s) ==
  {p \in 1..Len(s) :
     \E L \in prefixes[1] \cup prefixes[2] :
       \E i \in 1..Len(s) : HasAtI(s, i, L) /\ p = SkipWs(s, i + Len(L)) /\ SelectAt(s, p)}

\* the statement at p: from its SELECT to the terminator that follows
StatementAt(s, p) == Strip(Group(s, SelectGroup(s, p)))

C2_SqlBlockContentTrimmed ==
  (pc = "done" /\ SqlBlocks(response) # {}) =>
     (decided = 1 /\ result = Strip(SqlBlockContent(response)))

\* a block tagged sql with text before it and a SELECT statement inside
C2_Witness ==
  /\ pc = "done"
  /\ SqlBlocks(response) # {}
  /\ Min(SqlBlocks(response)) > 1
  /\ select_pattern(SqlBlockContent(response)).found
  /\ result # <<>>

\* position of a step in the cascade
StepNo ==
  [l \in Steps |->
     CASE l = "pattern1" -> 1 [] l = "pattern2" -> 2 [] l = "pattern3" -> 3
       [] l = "pattern4" -> 4 [] l = "pattern5" -> 5 [] l = "fallback" -> 6]

\* C3: the function is total: no call ends in an exception, every step either
\* returns or passes control to the next step, the last step returns, and a
\* return yields a string (made of characters of the response).
C3_Total ==
  /\ [](/\ pc \in Steps \cup {"done"}
        /\ pc = "done" =>
             /\ decided \in 1..6
             /\ DOMAIN result = 1..Len(result)
             /\ \A i \in 1..Len(result) :
                  \E j \in 1..Len(response) : result[i] = response[j])
  /\ [][/\ pc \in Steps
        /\ \/ pc' = "done" /\ decided' = StepNo[pc]
           \/ pc # "fallback" /\ pc' \in Steps /\ StepNo[pc'] = StepNo[pc] + 1]_vars

\* the fallback returned a non-empty response unmodified
C3_Witness ==
  /\ pc = "done"
  /\ decided = 6
  /\ consulted = 1..6
  /\ response # <<>>
  /\ result = response

\* C4: with no block tagged sql, when the first generic block holds text that
\* begins with SELECT in any letter case, the result is that text and only
\* steps 1 and 2 were consulted.
C4_GenericBlockDecides ==
  (/\ pc = "done"
   /\ SqlBlocks(response) = {}
   /\ HasGenericBlock(response)
   /\ StartsWith(Upper(GenericBlockContent(response)), Select)) =>
     (/\ result = GenericBlockContent(response)
      /\ decided = 2
      /\ consulted = {1, 2})

\* a generic block whose content begins with a lower-case select
C4_Witness ==
  /\ pc = "done"
  /\ SqlBlocks(response) = {}
  /\ HasGenericBlock(response)
  /\ StartsWith(GenericBlockContent(response), <<"s","e","l","e","c","t">>)
  /\ select_pattern(response).found

\* C5: when step 3 decides, the result is the span from the first SELECT
\* followed by whitespace to just before the first terminator after it, and so
\* holds no semicolon and no blank line.
C5_SpanStopsAtFirstTerminator ==
  (pc = "done" /\ decided = 3) =>
     LET i == Min({j \in 1..Len(response) : SelectAt(response, j)})
         t == Min({x \in (i + 7)..(Len(response) + 1) : TermAt(response, x)})
     IN  /\ result = Strip(Slice(response, i, t - 1))
         /\ ~HasSemi(result)
         /\ ~HasBlankLine(result)

\* C6 as stated: with no fence and a prefix label followed by a SELECT
\* statement, the result is the statement that follows the label, whatever
\* precedes the label.
C6_TextAfterLabel ==
  (pc = "done" /\ ~HasFence(response) /\ LabelledSelects(response) # {}) =>
     \E p \in LabelledSelects(response) : result = StatementAt(response, p)

\* C6 as amended: with no fence and a prefix label followed by a SELECT
\* statement, step 3 decides and the result is the statement at the first SELECT
\* followed by whitespace of the whole response; it is the statement after the
\* label when no such SELECT precedes the label.
C6_FirstSelectDecides ==
  (pc = "done" /\ ~HasFence(response) /\ LabelledSelects(response) # {}) =>
     LET first == Min({j \in 1..Len(response) : SelectAt(response, j)})
     IN  /\ decided = 3
         /\ 5 \notin consulted
         /\ result = StatementAt(response, first)
         /\ first = Min(LabelledSelects(response)) =>
              result = StatementAt(response, Min(LabelledSelects(response)))
         /\ HasAtI(result, 1, Select)
         /\ ~HasSemi(result)

\* text, then a label, then a SELECT statement, which is returned
C6_Witness ==
  /\ pc = "done"
  /\ ~HasFence(response)
  /\ LabelledSelects(response) # {}
  /\ response[1] = "x"
  /\ result = StatementAt(response, Min(LabelledSelects(response)))
  /\ Len(result) < Len(response) - 1

\* C7: when the fallback decides, the result has no leading or trailing
\* whitespace and does not end with a semicolon.
C7_FallbackClean ==
  (pc = "done" /\ decided = 6) =>
     (NoEdgeWhitespace(result) /\ ~EndsWithSemi(result))

-----------------------------------------------------------------------------
(* typo_transform                                                          *)

\* number of pieces a sentence is assembled from
MaxTypoPieces == 5

\* typo_per_word, the default of the parameter, in tenths
TypoPerWordTenths == 4

keyboard_neighbors ==
  [
    a |-> <<"s", "q", "w", "z">>,
    b |-> <<"v", "g", "h", "n">>,
    c |-> <<"x", "d", "f", "v">>,
    d |-> <<"s", "e", "r", "f", "c", "x">>,
    e |-> <<"w", "s", "d", "r">>,
    f |-> <<"d", "r", "t", "g", "v", "c">>,
    g |-> <<"f", "t", "y", "h", "b", "v">>,
    h |-> <<"g", "y", "u", "j", "n", "b">>,
    i |-> <<"u", "j", "k", "o">>,
    j |-> <<"h", "u", "i", "k", "n", "m">>,
    k |-> <<"j", "i", "o", "l", "m">>,
    l |-> <<"k", "o", "p">>,
    m |-> <<"n", "j", "k">>,
    n |-> <<"b", "h", "j", "m">>,
    o |-> <<"i", "k", "l", "p">>,
    p |-> <<"o", "l">>,
    q |-> <<"w", "a">>,
    r |-> <<"e", "d", "f", "t">>,
    s |-> <<"a", "w", "e", "d", "x", "z">>,
    t |-> <<"r", "f", "g", "y">>,
    u |-> <<"y", "h", "j", "i">>,
    v |-> <<"c", "f", "g", "b">>,
    w |-> <<"q", "a", "s", "e">>,
    x |-> <<"z", "s", "d", "c">>,
    y |-> <<"t", "g", "h", "u">>,
    z |-> <<"a", "s", "x">>
  ]

\* the values of prob the calls are checked with, in hundredths: 0, the 0.25
\* that custom_transform passes, and 1
Probs == {0, 25, 100}

\* outcomes of random.random(), a float of [0, 1), in hundredths
RandomValues == {0, 50, 99}

\* str.split(): the maximal runs of characters that are not whitespace
RECURSIVE Split(_)
Split(s) ==
  LET a == SkipWs(s, 1)
  IN  IF a > Len(s) THEN <<>>
      ELSE LET b == Min({j \in a..(Len(s) + 1) : j = Len(s) + 1 \/ s[j] \in Whitespace})
           IN  <<Slice(s, a, b - 1)>> \o Split(Slice(s, b, Len(s)))

\* ' '.join(ws)
RECURSIVE Join(_)
Join(ws) ==
  IF ws = <<>> THEN <<>>
  ELSE IF Len(ws) = 1 THEN ws[1]
  ELSE ws[1] \o <<" ">> \o Join(Tail(ws))

\* "random.random() < prob and len(word) > 2" with the outcome r of random()
Selected_LessEqual(r, p, word) == r <= p /\ Len(word) > 2

Selected(r, p, word) == r < p /\ Len(word) > 2

\* max(1, int(len(chars) * typo_per_word))
num_typos(chars) ==
  LET n == (Len(chars) * TypoPerWordTenths) \div 10 IN IF n > 1 THEN n ELSE 1

\* outcomes of random.sample(range(len(chars)), min(num_typos, len(chars))),
\* as sets of positions: the order of the sample does not change the word
Samples(chars) ==
  LET k == IF num_typos(chars) < Len(chars) THEN num_typos(chars) ELSE Len(chars)
  IN  {S \in SUBSET (1..Len(chars)) : Cardinality(S) = k}

\* Replacements without the .lower(): a capital has no entry in the table
Replacements_NoLower(ch) ==
  IF ch \in DOMAIN keyboard_neighbors
  THEN {keyboard_neighbors[ch][i] : i \in 1..Len(keyboard_neighbors[ch])}
  ELSE {ch}

\* what chars[idx] can hold after "c = chars[idx].lower(); if c in
\* keyboard_neighbors: chars[idx] = random.choice(keyboard_neighbors[c])"
Replacements(ch) ==
  LET c == ToLower(ch)
  IN  IF c \in DOMAIN keyboard_neighbors
      THEN {keyboard_neighbors[c][i] : i \in 1..Len(keyboard_neighbors[c])}
      ELSE {ch}

\* the words the loop over indices can make of chars, from position i on
RECURSIVE Typos(_, _, _)
Typos(chars, indices, i) ==
  IF i > Len(chars) THEN {<<>>}
  ELSE LET here == IF i \in indices THEN Replacements(chars[i]) ELSE {chars[i]}
       IN  {<<c>> \o rest : c \in here, rest \in Typos(chars, indices, i + 1)}

\* the strings the sentences are assembled from
TypoPieces == { <<"a">>, <<"Q">>, <<"1">>, <<" ">>, <<NL>> }

Sentences ==
  {Concat(ps) : ps \in UNION {[1..n -> TypoPieces] : n \in 0..MaxTypoPieces}}

TypoInit ==
  /\ sentence \in Sentences
  /\ prob \in Probs
  /\ pc = "split"
  /\ words = <<>>
  /\ new_words = <<>>
  /\ result = <<>>
  /\ response = <<>>
  /\ consulted = {}
  /\ decided = 0
  /\ P2Idle

\* words = sentence.split(); new_words = []
TypoSplit ==
  /\ pc = "split"
  /\ words' = Split(sentence)
  /\ new_words' = <<>>
  /\ pc' = "loop"
  /\ UNCHANGED <<sentence, prob, result, exVars, p2Vars>>

\* one iteration of "for word in words"
TypoWord ==
  /\ pc = "loop"
  /\ Len(new_words) < Len(words)
  /\ LET word == words[Len(new_words) + 1]
     IN  \E r \in RandomValues :
           IF Selected(r, prob, word)
           THEN \E indices \in Samples(word) :
                  \E typo \in Typos(word, indices, 1) :
                    new_words' = Append(new_words, typo)
           ELSE new_words' = Append(new_words, word)
  /\ UNCHANGED <<pc, sentence, prob, words, result, exVars, p2Vars>>

\* return ' '.join(new_words)
TypoReturn ==
  /\ pc = "loop"
  /\ Len(new_words) = Len(words)
  /\ result' = Join(new_words)
  /\ pc' = "done"
  /\ UNCHANGED <<txVars, exVars, p2Vars>>

TypoNext == TypoSplit \/ TypoWord \/ TypoReturn

SpecTypo == TypoInit /\ [][TypoNext]_vars

\* the characters of s that are not whitespace, in order
NonWhitespace(s) == SelectSeq(s, LAMBDA c : c \notin Whitespace)

\* s has no leading or trailing whitespace and single spaces between its words
SingleSpaced(s) ==
  /\ NoEdgeWhitespace(s)
  /\ \A i \in 1..Len(s) : s[i] \in Whitespace => s[i] = " "
  /\ \A i \in 1..(Len(s) - 1) : ~(s[i] = " " /\ s[i + 1] = " ")

IsLetter(c) == c \in LowerSet \cup UpperSet

\* C8 as stated: with probability 0 the output is the input, character for
\* character.
C8_ProbZeroIdentity ==
  (pc = "done" /\ prob = 0) => result = sentence

\* C8 as amended: with probability 0 every word is left unchanged and the
\* output is the words of the input joined by single spaces, which is the
\* input exactly when the input is so spaced.
C8_ProbZeroKeepsWords ==
  (pc = "done" /\ prob = 0) =>
     /\ new_words = words
     /\ NonWhitespace(result) = NonWhitespace(sentence)
     /\ SingleSpaced(result)
     /\ (result = sentence) <=> SingleSpaced(sentence)

\* a sentence with a word of more than 2 characters and a second word, under
\* probability 0, returned as it is
C8_Witness ==
  /\ pc = "done"
  /\ prob = 0
  /\ Len(words) = 2
  /\ Len(words[1]) > 2
  /\ result = sentence

\* C9 as stated: with probability 1 every word of more than 2 characters
\* differs from the word at its place in the output.
C9_ProbOneAltersLongWords ==
  (pc = "done" /\ prob = 100) =>
     /\ Len(Split(result)) = Len(words)
     /\ \A i \in 1..Len(words) : Len(words[i]) > 2 => Split(result)[i] # words[i]

\* C9 as amended: with probability 1 every word of more than 2 characters that
\* are all letters differs from the word at its place in the output; words of
\* at most 2 characters are unchanged.
C9_ProbOneAltersLetterWords ==
  (pc = "done" /\ prob = 100) =>
     /\ Len(Split(result)) = Len(words)
     /\ \A i \in 1..Len(words) :
          /\ (Len(words[i]) > 2 /\ \A k \in 1..Len(words[i]) : IsLetter(words[i][k]))
               => Split(result)[i] # words[i]
          /\ Len(words[i]) <= 2 => Split(result)[i] = words[i]

\* a word of three letters with a capital, altered under probability 1
C9_Witness ==
  /\ pc = "done"
  /\ prob = 100
  /\ \E i \in 1..Len(words) :
       /\ Len(words[i]) > 2
       /\ \A k \in 1..Len(words[i]) : IsLetter(words[i][k])
       /\ \E k \in 1..Len(words[i]) : words[i][k] \in UpperSet
       /\ new_words[i] # words[i]

-----------------------------------------------------------------------------
(* synonym_replacement                                                     *)

\* number of tokens of a sentence
MaxTokens == 3

\* stopwords.words("english") is data of the NLTK corpus: three of its words
stop_words == { <<"a">>, <<"t","h","e">>, <<"i","s">> }

\* wordnet.synsets(word) is data of WordNet, looked up without regard to case:
\* for each word the lemma names of its synsets, in order
wordnet_synsets(word) ==
  LET w == Lower(word)
  IN  IF w = <<"c","a","t">>
      THEN << << <<"c","a","t">>, <<"t","r","u","e","_","c","a","t">> >>, << <<"g","u","y">>, <<"c","a","t">> >>, << <<"c","a","t">> >>, << <<"k","a","t">> >> >>
      ELSE IF w = <<"a">> THEN << << <<"a","m","p">>, <<"A">> >>, << <<"t","y","p","e","_","A">> >> >>
      ELSE IF w = <<"1">> THEN << << <<"o","n","e">>, <<"1">> >> >>
      ELSE << >>

\* str.isalpha()
IsAlpha(word) == Len(word) > 0 /\ \A k \in 1..Len(word) : IsLetter(word[k])

\* name.replace('_', ' ')
ReplaceUnderscore(name) == [k \in 1..Len(name) |-> IF name[k] = "_" THEN " " ELSE name[k]]

\* Protected without the .lower()
Protected_NoLower(word) == word \in stop_words \/ ~IsAlpha(word)

\* "word.lower() in stop_words or not word.isalpha()"
Protected(word) == Lower(word) \in stop_words \/ ~IsAlpha(word)

\* the elements of all_synonyms: the lemma names of the first 3 synsets, other
\* than the word itself in lower case, with spaces for underscores
all_synonyms(word) ==
  LET synsets == wordnet_synsets(word)
      first3 == {synsets[i] : i \in {j \in 1..Len(synsets) : j <= 3}}
  IN  UNION {{ReplaceUnderscore(lemmas[k]) :
                 k \in {j \in 1..Len(lemmas) : Lower(lemmas[j]) # Lower(word)}} :
               lemmas \in first3}

\* the tokens the sentences are made of
Tokens == { <<"a">>, <<"A">>, <<"1">>, <<"c","a","t">> }

TokenLists == UNION {[1..n -> Tokens] : n \in 0..MaxTokens}

\* the values of prob the calls are checked with, in hundredths: 0, the
\* default 0.5, and 1
SynProbs == {0, 50, 100}

SynInit ==
  /\ sentence \in {Join(ts) : ts \in TokenLists}
  /\ prob \in SynProbs
  /\ pc = "tokenize"
  /\ words = <<>>
  /\ new_words = <<>>
  /\ result = <<>>
  /\ response = <<>>
  /\ consulted = {}
  /\ decided = 0
  /\ P2Idle

\* words = word_tokenize(sentence); new_words = []: on these sentences the
\* tokenizer returns the words between the spaces
SynTokenize ==
  /\ pc = "tokenize"
  /\ words' = Split(sentence)
  /\ new_words' = <<>>
  /\ pc' = "loop"
  /\ UNCHANGED <<sentence, prob, result, exVars, p2Vars>>

\* one iteration of "for word in words"
SynWord ==
  /\ pc = "loop"
  /\ Len(new_words) < Len(words)
  /\ LET word == words[Len(new_words) + 1]
     IN  IF Protected(word) THEN new_words' = Append(new_words, word)
         ELSE \E r \in RandomValues :
                IF r < prob /\ wordnet_synsets(word) # <<>> /\ all_synonyms(word) # {}
                THEN \E new_word \in all_synonyms(word) :
                       new_words' = Append(new_words, new_word)
                ELSE new_words' = Append(new_words, word)
  /\ UNCHANGED <<pc, sentence, prob, words, result, exVars, p2Vars>>

\* return ' '.join(new_words)
SynReturn ==
  /\ pc = "loop"
  /\ Len(new_words) = Len(words)
  /\ result' = Join(new_words)
  /\ pc' = "done"
  /\ UNCHANGED <<txVars, exVars, p2Vars>>

SynNext == SynTokenize \/ SynWord \/ SynReturn

SpecSyn == SynInit /\ [][SynNext]_vars

\* C10: a token that is a stop word in lower case, or that holds a character
\* that is not a letter, stands unchanged at its place in new_words, at every
\* point of the loop and at the return, which issues every token.
C10_StopWordsAndNonAlphaKept ==
  /\ Len(new_words) <= Len(words)
  /\ pc = "done" => Len(new_words) = Len(words)
  /\ \A i \in 1..Len(new_words) :
       (\/ Lower(words[i]) \in stop_words
        \/ \E k \in 1..Len(words[i]) : ~IsLetter(words[i][k]))
         => new_words[i] = words[i]

\* a capital stop word and a digit kept while another token was replaced
C10_Witness ==
  /\ pc = "done"
  /\ prob = 100
  /\ \E i \in 1..Len(words) : words[i] = <<"A">> /\ new_words[i] = words[i]
  /\ \E i \in 1..Len(words) : words[i] = <<"1">> /\ new_words[i] = words[i]
  /\ \E i \in 1..Len(words) : new_words[i] # words[i]

-----------------------------------------------------------------------------
(* part-2-code/train_t5.py: train and the part of main that follows it.    *)
(* Scores and losses are counted in tenths, so that the record F1 of an    *)
(* epoch (0 .. 1) and a negated dev loss are compared as integers.         *)

\* largest --max_n_epochs of the model
MaxEpochs == 3

\* largest --patience_epochs of the model
MaxPatience == 2

\* largest --eval_every_n_epochs of the model
MaxEvalEvery == 2

\* the average dev loss an evaluation can return: a mean cross entropy, or 0
LossValues == {0, 10, 20}

\* the record F1 compute_metrics can return: a mean of F1 scores
F1Values == {0, 5, 10}

\* best_f1 starting at the lowest record F1 instead of below it
InitialBestF1_Zero == Min(F1Values)

\* best_f1 = -1
InitialBestF1 == -10

\* the values of the command line that train reads
ArgValues ==
  [max_n_epochs : 0..MaxEpochs,
   patience_epochs : 0..MaxPatience,
   eval_every_n_epochs : 1..MaxEvalEvery,
   skip_record_computation : BOOLEAN,
   save_only_best : BOOLEAN]

TrainInit ==
  /\ args \in ArgValues
  /\ pc = "for"
  /\ epoch = 0
  /\ best_f1 = InitialBestF1
  /\ epochs_since_improvement = 0
  /\ eval_loss = 0
  /\ record_f1 = 0
  /\ best_saves = 0
  /\ last_saves = 0
  /\ log = <<>>
  /\ result = <<>>
  /\ ExIdle
  /\ TxIdle
  /\ EvIdle
  /\ LdIdle
  /\ ClIdle

\* should_eval_fully
should_eval_fully_first_only(e) ==
  e = 0 \/ e = args.max_n_epochs - 1

should_eval_fully(e) ==
  (e % args.eval_every_n_epochs = 0) \/ (e = args.max_n_epochs - 1)

\* for epoch in range(args.max_n_epochs): the next epoch starts with its
\* training pass, or the range is exhausted and train returns
ForEpoch ==
  /\ pc = "for"
  /\ IF epoch < args.max_n_epochs
       THEN pc' = "train_epoch"
       ELSE pc' = "returned"
  /\ UNCHANGED <<result, exVars, txVars, evVars, ldVars, clVars, trVars>>

\* tr_loss = train_epoch(...), then the choice of the evaluation
TrainEpoch ==
  /\ pc = "train_epoch"
  /\ pc' = IF should_eval_fully(epoch) THEN "eval_epoch" ELSE "eval_epoch_fast"
  /\ log' = Append(log, [train |-> 1, full |-> 0, fast |-> 0])
  /\ UNCHANGED <<result, exVars, txVars, evVars, ldVars, clVars, args, epoch, best_f1,
                 epochs_since_improvement, eval_loss, record_f1,
                 best_saves, last_saves>>

\* the record F1 eval_epoch returns
eval_epoch_f1(f1) == IF args.skip_record_computation THEN 0 ELSE f1

\* eval_loss, record_f1, ... = eval_epoch(...)
EvalEpoch ==
  /\ pc = "eval_epoch"
  /\ \E loss \in LossValues, f1 \in F1Values :
       /\ eval_loss' = loss
       /\ record_f1' = eval_epoch_f1(f1)
  /\ log' = [log EXCEPT ![Len(log)].full = @ + 1]
  /\ pc' = "compare"
  /\ UNCHANGED <<result, exVars, txVars, evVars, ldVars, clVars, args, epoch, best_f1,
                 epochs_since_improvement, best_saves, last_saves>>

\* eval_loss = eval_epoch_fast(...); record_f1 = -eval_loss
EvalEpochFast ==
  /\ pc = "eval_epoch_fast"
  /\ \E loss \in LossValues :
       /\ eval_loss' = loss
       /\ record_f1' = 0 - loss
  /\ log' = [log EXCEPT ![Len(log)].fast = @ + 1]
  /\ pc' = "compare"
  /\ UNCHANGED <<result, exVars, txVars, evVars, ldVars, clVars, args, epoch, best_f1,
                 epochs_since_improvement, best_saves, last_saves>>

\* if record_f1 > best_f1
Improved == record_f1 > best_f1

\* if epochs_since_improvement >= args.patience_epochs: break
Break_Late(n) == n > args.patience_epochs

Break(n) == n >= args.patience_epochs

\* the rest of the loop body: the improvement test, the two saves and the
\* patience test
Compare ==
  /\ pc = "compare"
  /\ LET improved == Improved
         n == IF improved THEN 0 ELSE epochs_since_improvement + 1
     IN /\ best_f1' = IF improved THEN record_f1 ELSE best_f1
        /\ epochs_since_improvement' = n
        /\ best_saves' = IF improved THEN best_saves + 1 ELSE best_saves
        /\ last_saves' = IF args.save_only_best THEN last_saves
                                              ELSE last_saves + 1
        /\ log' = [log EXCEPT ![Len(log)] =
                     [train |-> @.train, full |-> @.full, fast |-> @.fast,
                      loss |-> eval_loss, score |-> record_f1,
                      best |-> best_f1, improved |-> improved,
                      saved |-> best_saves' - best_saves,
                      counter |-> n]]
        /\ IF Break(n)
             THEN pc' = "returned" /\ epoch' = epoch
             ELSE pc' = "for" /\ epoch' = epoch + 1
  /\ UNCHANGED <<result, exVars, txVars, evVars, ldVars, clVars, args, eval_loss, record_f1>>

\* main: model = load_model_from_checkpoint(args, best=True) after train;
\* the checkpoint file exists only if train saved it
MainLoadBest ==
  /\ pc = "returned"
  /\ pc' = IF best_saves > 0 THEN "loaded" ELSE "load_failed"
  /\ UNCHANGED <<result, exVars, txVars, evVars, ldVars, clVars, trVars>>

TrainNext ==
  \/ ForEpoch
  \/ TrainEpoch
  \/ EvalEpoch
  \/ EvalEpochFast
  \/ Compare
  \/ MainLoadBest

SpecTrain == TrainInit /\ [][TrainNext]_vars

\* the epochs whose loop body has finished
Finished == {e \in 1..Len(log) : "score" \in DOMAIN log[e]}

\* C17: with eval_every_n_epochs = N >= 1, an executed epoch e runs the full
\* evaluation exactly when e % N = 0 or e = max_n_epochs - 1 and the loss-only
\* evaluation otherwise; epoch 0 is always fully evaluated, and every executed
\* epoch runs one training pass and then exactly one of the two evaluations.
C17_FullEvalSchedule ==
  (args # <<>> /\ args.eval_every_n_epochs >= 1) =>
    \A i \in 1..Len(log) :
      LET e == i - 1
          due == (e % args.eval_every_n_epochs = 0) \/ (e = args.max_n_epochs - 1)
          evaluated == i < Len(log) \/ pc \notin {"eval_epoch", "eval_epoch_fast"}
      IN  /\ log[i].train = 1
          /\ log[i].full + log[i].fast = (IF evaluated THEN 1 ELSE 0)
          /\ log[i].full = 1 => due
          /\ log[i].fast = 1 => ~due
          /\ (e = 0 => log[i].fast = 0)
          /\ (pc = "eval_epoch" /\ i = Len(log)) => due
          /\ (pc = "eval_epoch_fast" /\ i = Len(log)) => ~due

\* three epochs ran, the middle one with the loss-only evaluation and the
\* other two with the full one
C17_Witness ==
  /\ pc = "returned"
  /\ Len(log) = 3
  /\ log[1].full = 1
  /\ log[2].fast = 1
  /\ log[3].full = 1

\* the best score before epoch number i of the log, from the scores alone
BestBefore(i) == Max({InitialBestF1} \cup {log[j].score : j \in 1..(i - 1)})

\* epoch number i scored strictly more than every epoch before it
Exceeds(i) == log[i].score > BestBefore(i)

\* the number of consecutive epochs, ending with epoch number i, that did not
\* exceed the best score
Stale(i) == i - Max({0} \cup {j \in 1..i : Exceeds(j)})

\* train has left its loop
Returned == pc \in {"returned", "loaded", "load_failed"}

\* C12: train runs at most max_n_epochs epochs and stops right after the
\* first epoch at which patience_epochs consecutive epochs have passed without
\* the score strictly exceeding the best score so far; an epoch that exceeds it
\* resets the counter to 0, and only such an epoch saves the best checkpoint.
C12_EarlyStopping ==
  (args # <<>>) =>
    /\ Len(log) <= args.max_n_epochs
    /\ \A i \in Finished :
         /\ log[i].counter = Stale(i)
         /\ Exceeds(i) => (log[i].counter = 0 /\ log[i].saved = 1)
         /\ ~Exceeds(i) => log[i].saved = 0
         /\ i < Len(log) => Stale(i) < args.patience_epochs
    /\ (Finished # {} /\ Len(log) \in Finished
          /\ Stale(Len(log)) >= args.patience_epochs) =>
         Returned
    /\ Returned =>
         \/ Len(log) = args.max_n_epochs
         \/ (Len(log) > 0 /\ Stale(Len(log)) >= args.patience_epochs)
    /\ best_saves = Cardinality({i \in Finished : Exceeds(i)})

\* train stopped on patience after two of its three epochs: the first one
\* improved and saved, the second one did not
C12_Witness ==
  /\ pc = "returned"
  /\ args.patience_epochs = 1
  /\ args.max_n_epochs = 3
  /\ Len(log) = 2
  /\ log[1].saved = 1
  /\ log[2].counter = 1

\* C18: whenever train returns after max_n_epochs >= 1, the best checkpoint
\* has been saved at least once, because the first epoch always counts as an
\* improvement over the initial best score; so the load of the best checkpoint
\* in main follows a save of it; and best_f1 never decreases.
C18_BestSavedBeforeLoad ==
  /\ [](args # <<>> =>
         /\ (1 \in Finished) => (log[1].improved /\ log[1].saved = 1)
         /\ (Returned /\ args.max_n_epochs >= 1) => best_saves >= 1
         /\ (args.max_n_epochs >= 1) => pc # "load_failed"
         /\ pc = "loaded" => best_saves >= 1)
  /\ [][best_f1' >= best_f1]_vars

\* main loaded the best checkpoint of a run whose first epoch scored a
\* record F1 of 0, the lowest score there is
C18_Witness ==
  /\ pc = "loaded"
  /\ args.max_n_epochs >= 1
  /\ ~args.skip_record_computation
  /\ log[1].score = 0
  /\ best_saves = 1

\* the dev loss of epoch number i is strictly lower than that of every
\* earlier epoch
LowestLoss(i) == \A j \in 1..(i - 1) : log[i].loss < log[j].loss

\* epoch number i was treated as an improvement
TreatedAsImprovement(i) ==
  log[i].improved /\ log[i].counter = 0 /\ log[i].saved = 1

\* C11: with --skip_record_computation set, an epoch whose dev loss is
\* strictly lower than that of every earlier epoch counts as an improvement:
\* it resets epochs_since_improvement to 0 and saves the best checkpoint.
C11_SkipFlagLossDrivesStopping ==
  (args # <<>> /\ args.skip_record_computation) =>
    \A i \in Finished : LowestLoss(i) => TreatedAsImprovement(i)

\* C16: an epoch with the loss-only evaluation scores the negated dev loss,
\* and such an epoch whose dev loss is lower than that of every earlier epoch
\* is treated as an improvement, also after fully evaluated epochs.
C16_FastEpochLowestLossImproves ==
  (args # <<>>) =>
    \A i \in Finished :
      log[i].fast = 1 =>
        /\ log[i].score = 0 - log[i].loss
        /\ LowestLoss(i) => TreatedAsImprovement(i)

-----------------------------------------------------------------------------
(* part-2-code/train_t5.py: the metric computation of eval_epoch.          *)
(* save_queries_and_records and compute_metrics are imported from          *)
(* part-2-code/utils.py; they are modelled from the specification: a       *)
(* query that fails to execute is recorded with an error message and with  *)
(* no records, record EM asks for identical row sets and record F1 is the  *)
(* harmonic mean of precision and recall over the row-set overlap, and an  *)
(* example whose query failed scores 0 in both.  Scores are kept as        *)
(* <<numerator, denominator>>; a per-example F1 is counted in twelfths.    *)

\* largest number of dev examples of the model
MaxExamples == 2

\* the rows a query can return
Rows == {1, 2}

\* Python's None, written as a string that no message equals
None == "None"

\* the message recorded for a query that failed to execute
ErrorMessages == {"OperationalError: no such column"}

\* the message recorded for a query that executed
NoErrorMessages == {"", None}

\* a dev example: the rows of the ground-truth query, and whether the
\* predicted query executes and with which rows
Example == [gt : SUBSET Rows, executes : BOOLEAN, rows : SUBSET Rows]

Examples ==
  UNION {[1..n -> {x \in Example : x.executes \/ x.rows = {}}] :
           n \in 0..MaxExamples}

EvalInit ==
  /\ examples \in Examples
  /\ pc = "save_queries_and_records"
  /\ model_records = <<>>
  /\ error_msgs = <<>>
  /\ metrics = <<>>
  /\ result = <<>>
  /\ ExIdle
  /\ TxIdle
  /\ TrIdle
  /\ LdIdle
  /\ ClIdle

\* save_queries_and_records(generated_queries, ...): each query is executed;
\* a failure is caught and recorded as the message of its example
SaveQueriesAndRecords ==
  /\ pc = "save_queries_and_records"
  /\ model_records' \in
       {r \in [1..Len(examples) -> [rows : SUBSET Rows,
                                    msg : ErrorMessages \cup NoErrorMessages]] :
          \A i \in 1..Len(examples) :
            IF examples[i].executes
              THEN r[i].rows = examples[i].rows /\ r[i].msg \in NoErrorMessages
              ELSE r[i].rows = {} /\ r[i].msg \in ErrorMessages}
  /\ pc' = "compute_metrics"
  /\ UNCHANGED <<result, exVars, txVars, trVars, ldVars, clVars, examples, error_msgs, metrics>>

\* msg is not None and msg != ''
IsErrorMessage_NotNone(msg) == msg # None

IsErrorMessage(msg) == msg # None /\ msg # ""

\* record exact match of one example
RecordEM(i) ==
  IF IsErrorMessage(model_records[i].msg) THEN 0
  ELSE IF model_records[i].rows = examples[i].gt THEN 1 ELSE 0

\* record F1 of one example, in twelfths:
\* 2 * overlap / (predicted rows + ground-truth rows)
RecordF1(i) ==
  LET p == model_records[i].rows
      g == examples[i].gt
  IN  IF IsErrorMessage(model_records[i].msg) THEN 0
      ELSE IF p = g THEN 12
      ELSE (24 * Cardinality(p \cap g)) \div (Cardinality(p) + Cardinality(g))

\* the sum of the record EM of the examples 1 .. n
RECURSIVE SumEM(_)
SumEM(n) == IF n = 0 THEN 0 ELSE RecordEM(n) + SumEM(n - 1)

\* the sum of the record F1 of the examples 1 .. n
RECURSIVE SumF1(_)
SumF1(n) == IF n = 0 THEN 0 ELSE RecordF1(n) + SumF1(n - 1)

\* sql_em, record_em, record_f1, error_msgs = compute_metrics(...): the means
\* over all examples, and the messages
ComputeMetrics ==
  /\ pc = "compute_metrics"
  /\ error_msgs' = [i \in 1..Len(model_records) |-> model_records[i].msg]
  /\ metrics' = [record_em |-> <<SumEM(Len(examples)), Len(examples)>>,
                 record_f1 |-> <<SumF1(Len(examples)), 12 * Len(examples)>>]
  /\ pc' = "error_rate"
  /\ UNCHANGED <<result, exVars, txVars, trVars, ldVars, clVars, examples, model_records>>

\* error_count = sum(1 for msg in error_msgs if msg is not None and msg != '')
error_count == Cardinality({i \in 1..Len(error_msgs) : IsErrorMessage(error_msgs[i])})

\* error_rate = error_count / len(error_msgs) if len(error_msgs) > 0 else 0
error_rate ==
  IF Len(error_msgs) > 0 THEN <<error_count, Len(error_msgs)>> ELSE <<0, 1>>

\* the error rate, and return avg_loss, record_f1, record_em, sql_em, error_rate
EvalReturn ==
  /\ pc = "error_rate"
  /\ result' = [record_f1 |-> metrics.record_f1,
                record_em |-> metrics.record_em,
                error_rate |-> error_rate]
  /\ pc' = "done"
  /\ UNCHANGED <<exVars, txVars, trVars, ldVars, clVars, evVars>>

EvalNext ==
  \/ SaveQueriesAndRecords
  \/ ComputeMetrics
  \/ EvalReturn

SpecEval == EvalInit /\ [][EvalNext]_vars

\* the examples whose predicted query failed to execute
Failed == {i \in 1..Len(examples) : ~examples[i].executes}

\* the examples whose predicted query executed
Executed == {i \in 1..Len(examples) : examples[i].executes}

-----------------------------------------------------------------------------
(* part-2-code/load_data.py: T5Dataset.process_data.  A line of a file is  *)
(* a sequence of characters, the tokenizer gives one token per character   *)
(* and appends the end-of-sequence token.                                  *)

\* largest number of lines of a data file of the model
MaxLines == 2

\* the lines a data file is made of
Lines == {<<"a">>, <<" ", "b">>}

\* the contents of a data file
Files == UNION {[1..n -> Lines] : n \in 0..MaxLines}

\* load_lines: the stripped lines of the file
load_lines(file) == [i \in 1..Len(file) |-> Strip(file[i])]

\* schema_str of load_schema_info, as one piece of text
schema_str == <<"tables: flight">>

\* input_text, with the schema when use_schema is set
input_text(nl) ==
  IF split.use_schema
    THEN <<"translate to SQL: ">> \o nl \o <<" | schema: ">> \o schema_str
    ELSE <<"translate to SQL: ">> \o nl

\* tokenizer(text, add_special_tokens=True)['input_ids']
tokenizer(text) == Append(text, "</s>")

LoadInit ==
  /\ split \in [name : {"train", "dev", "test"}, use_schema : BOOLEAN]
  /\ nl_file \in Files
  /\ sql_file \in (IF split.name = "test" THEN {<<>>} ELSE Files)
  /\ pc = "load_nl"
  /\ nl_queries = <<>>
  /\ sql_queries = <<>>
  /\ processed_data = <<>>
  /\ tokenizer_calls = 0
  /\ result = <<>>
  /\ ExIdle
  /\ TxIdle
  /\ TrIdle
  /\ EvIdle
  /\ ClIdle

\* nl_queries = load_lines(nl_path), the schema, processed_data = []
LoadNl ==
  /\ pc = "load_nl"
  /\ nl_queries' = load_lines(nl_file)
  /\ pc' = IF split.name = "test" THEN "for_nl" ELSE "load_sql"
  /\ UNCHANGED <<result, exVars, txVars, trVars, evVars, clVars, split, nl_file,
                 sql_file, sql_queries, processed_data, tokenizer_calls>>

\* test split: for nl in nl_queries, tokenize the input and append it; after
\* the last one, return processed_data
ForNl ==
  /\ pc = "for_nl"
  /\ IF Len(processed_data) < Len(nl_queries)
       THEN LET nl == nl_queries[Len(processed_data) + 1]
            IN  /\ processed_data' = Append(processed_data,
                     [encoder_input_ids |-> tokenizer(input_text(nl))])
                /\ tokenizer_calls' = tokenizer_calls + 1
                /\ UNCHANGED <<pc, result>>
       ELSE /\ pc' = "returned"
            /\ result' = processed_data
            /\ UNCHANGED <<processed_data, tokenizer_calls>>
  /\ UNCHANGED <<exVars, txVars, trVars, evVars, clVars, split, nl_file, sql_file,
                 nl_queries, sql_queries>>

\* sql_queries = load_lines(sql_path)
LoadSql ==
  /\ pc = "load_sql"
  /\ sql_queries' = load_lines(sql_file)
  /\ pc' = "assert"
  /\ UNCHANGED <<result, exVars, txVars, trVars, evVars, clVars, split, nl_file,
                 sql_file, nl_queries, processed_data, tokenizer_calls>>

\* len(nl_queries) == len(sql_queries)
SizesMatch_Unchecked == TRUE

SizesMatch == Len(nl_queries) = Len(sql_queries)

\* assert len(nl_queries) == len(sql_queries), "Mismatch in data sizes ..."
AssertSizes ==
  /\ pc = "assert"
  /\ pc' = IF SizesMatch THEN "for_zip" ELSE "raised"
  /\ UNCHANGED <<result, exVars, txVars, trVars, evVars, clVars, ldVars>>

\* for nl, sql in zip(nl_queries, sql_queries): tokenize both and append the
\* pair; after the last pair, return processed_data
ForZip ==
  /\ pc = "for_zip"
  /\ IF Len(processed_data) < Min({Len(nl_queries), Len(sql_queries)})
       THEN LET nl == nl_queries[Len(processed_data) + 1]
                sql == sql_queries[Len(processed_data) + 1]
            IN  /\ processed_data' = Append(processed_data,
                     [encoder_input_ids |-> tokenizer(input_text(nl)),
                      decoder_input_ids |-> tokenizer(sql)])
                /\ tokenizer_calls' = tokenizer_calls + 2
                /\ UNCHANGED <<pc, result>>
       ELSE /\ pc' = "returned"
            /\ result' = processed_data
            /\ UNCHANGED <<processed_data, tokenizer_calls>>
  /\ UNCHANGED <<exVars, txVars, trVars, evVars, clVars, split, nl_file, sql_file,
                 nl_queries, sql_queries>>

LoadNext ==
  \/ LoadNl
  \/ ForNl
  \/ LoadSql
  \/ AssertSizes
  \/ ForZip

SpecLoad == LoadInit /\ [][LoadNext]_vars

\* C14: loading a train or dev split whose natural-language file and SQL
\* file differ in their number of lines fails: process_data raises before any
\* example is tokenized, and it returns no dataset, partial or not.
C14_MismatchRaisesBeforeTokenizing ==
  (split # <<>> /\ split.name \in {"train", "dev"}
     /\ Len(nl_file) # Len(sql_file)) =>
    /\ pc \in {"load_nl", "load_sql", "assert", "raised"}
    /\ tokenizer_calls = 0
    /\ processed_data = <<>>
    /\ result = <<>>

\* the assertion failed on a dev split with two questions and one query
C14_Witness ==
  /\ pc = "raised"
  /\ split.name = "dev"
  /\ Len(nl_file) = 2
  /\ Len(sql_file) = 1
  /\ tokenizer_calls = 0

-----------------------------------------------------------------------------
(* part-2-code/load_data.py: normal_collate_fn and test_collate_fn.  A     *)
(* tensor of shape B x T is a sequence of B sequences of length T.         *)

\* largest batch of the model
MaxBatch == 2

\* largest number of tokens of an example of the model
MaxSeqLen == 2

\* the id of the end-of-sequence token the tokenizer appends
EOS_ID == 1

\* padding with the end-of-sequence token
PAD_IDX_One == EOS_ID

\* PAD_IDX = 0
PAD_IDX == 0

\* the ids a token of the text can have: the padding token, when the text
\* spells it out, and an ordinary token
TokenIds == {0, 2}

\* the ids of a tokenized text: its tokens, then the end-of-sequence token
TokenSeqs ==
  UNION {{Append(body, EOS_ID) : body \in [1..n -> TokenIds]} :
           n \in 0..(MaxSeqLen - 1)}

\* what __getitem__ returns on the train and dev splits, and on the test split
TrainItems == [encoder_input_ids : TokenSeqs, decoder_input_ids : TokenSeqs]

TestItems == [encoder_input_ids : TokenSeqs]

Batches(items) == UNION {[1..n -> items] : n \in 1..MaxBatch}

CollateInit ==
  /\ batch \in {[fn |-> "normal_collate_fn", items |-> b] : b \in Batches(TrainItems)}
          \cup {[fn |-> "test_collate_fn", items |-> b] : b \in Batches(TestItems)}
  /\ pc = "pad_encoder"
  /\ encoder_ids = <<>>
  /\ encoder_mask = <<>>
  /\ decoder_inputs = <<>>
  /\ decoder_labels = <<>>
  /\ result = <<>>
  /\ ExIdle
  /\ TxIdle
  /\ TrIdle
  /\ EvIdle
  /\ LdIdle

\* pad_sequence(seqs, batch_first=True, padding_value=value): every sequence
\* is extended at its end with value, up to the longest length
pad_sequence(seqs, value) ==
  LET T == Max({Len(seqs[i]) : i \in 1..Len(seqs)})
  IN  [i \in 1..Len(seqs) |->
         [j \in 1..T |-> IF j <= Len(seqs[i]) THEN seqs[i][j] ELSE value]]

\* (tensor != PAD_IDX).long()
NotPad(tensor) ==
  [i \in 1..Len(tensor) |->
     [j \in 1..Len(tensor[i]) |-> IF tensor[i][j] # PAD_IDX THEN 1 ELSE 0]]

\* encoder_ids = pad_sequence(encoder_input_ids, ...), in both functions
PadEncoder ==
  /\ pc = "pad_encoder"
  /\ encoder_ids' =
       pad_sequence([i \in 1..Len(batch.items) |->
                       batch.items[i].encoder_input_ids], PAD_IDX)
  /\ pc' = "mask"
  /\ UNCHANGED <<result, exVars, txVars, trVars, evVars, ldVars, batch,
                 encoder_mask, decoder_inputs, decoder_labels>>

\* encoder_mask = (encoder_ids != PAD_IDX).long(), in both functions
EncoderMask ==
  /\ pc = "mask"
  /\ encoder_mask' = NotPad(encoder_ids)
  /\ pc' = IF batch.fn = "normal_collate_fn" THEN "pad_decoder" ELSE "return"
  /\ UNCHANGED <<result, exVars, txVars, trVars, evVars, ldVars, batch,
                 encoder_ids, decoder_inputs, decoder_labels>>

\* normal_collate_fn: decoder_inputs = pad_sequence(decoder_input_ids, ...)
PadDecoder ==
  /\ pc = "pad_decoder"
  /\ decoder_inputs' =
       pad_sequence([i \in 1..Len(batch.items) |->
                       batch.items[i].decoder_input_ids], PAD_IDX)
  /\ pc' = "labels"
  /\ UNCHANGED <<result, exVars, txVars, trVars, evVars, ldVars, batch,
                 encoder_ids, encoder_mask, decoder_labels>>

\* normal_collate_fn: decoder_labels = decoder_inputs.clone();
\* decoder_labels[decoder_labels == PAD_IDX] = -100
DecoderLabels ==
  /\ pc = "labels"
  /\ decoder_labels' =
       [i \in 1..Len(decoder_inputs) |->
          [j \in 1..Len(decoder_inputs[i]) |->
             IF decoder_inputs[i][j] = PAD_IDX THEN 0 - 100
                                               ELSE decoder_inputs[i][j]]]
  /\ pc' = "return"
  /\ UNCHANGED <<result, exVars, txVars, trVars, evVars, ldVars, batch,
                 encoder_ids, encoder_mask, decoder_inputs>>

\* return encoder_ids, encoder_mask, decoder_labels, None, None, or
\* return encoder_ids, encoder_mask, None
CollateReturn ==
  /\ pc = "return"
  /\ result' = IF batch.fn = "normal_collate_fn"
                 THEN <<encoder_ids, encoder_mask, decoder_labels, None, None>>
                 ELSE <<encoder_ids, encoder_mask, None>>
  /\ pc' = "returned"
  /\ UNCHANGED <<exVars, txVars, trVars, evVars, ldVars, clVars>>

CollateNext ==
  \/ PadEncoder
  \/ EncoderMask
  \/ PadDecoder
  \/ DecoderLabels
  \/ CollateReturn

SpecCollate == CollateInit /\ [][CollateNext]_vars

\* tensor holds the sequences seqs, each one in order and followed by the
\* value pad up to the common length, the longest of their lengths
PaddedWith(tensor, seqs, pad) ==
  /\ Len(tensor) = Len(seqs)
  /\ \A i \in 1..Len(seqs) :
       /\ \A k \in 1..Len(seqs) : Len(tensor[i]) >= Len(seqs[k])
       /\ \E k \in 1..Len(seqs) : Len(tensor[i]) = Len(seqs[k])
       /\ SubSeq(tensor[i], 1, Len(seqs[i])) = seqs[i]
       /\ \A j \in (Len(seqs[i]) + 1)..Len(tensor[i]) : tensor[i][j] = pad

\* C15: in every batch of normal_collate_fn and test_collate_fn all
\* sequences have a common length, each example's tokens are kept in order
\* before its padding, and the attention mask is 1 exactly where the token is
\* not the padding value 0.
C15_PaddingAndMask ==
  (pc = "returned" /\ batch # <<>>) =>
    LET ids == result[1]
        mask == result[2]
        enc == [i \in 1..Len(batch.items) |-> batch.items[i].encoder_input_ids]
    IN  /\ PaddedWith(ids, enc, 0)
        /\ Len(mask) = Len(ids)
        /\ \A i \in 1..Len(ids) :
             /\ Len(mask[i]) = Len(ids[i])
             /\ \A j \in 1..Len(ids[i]) :
                  /\ mask[i][j] \in {0, 1}
                  /\ mask[i][j] = 1 <=> ids[i][j] # 0
                  /\ j > Len(enc[i]) => mask[i][j] = 0
        /\ batch.fn = "normal_collate_fn" =>
             LET dec == [i \in 1..Len(batch.items) |->
                           batch.items[i].decoder_input_ids]
             IN  /\ PaddedWith(decoder_inputs, dec, 0)
                 /\ Len(result) = 5
                 /\ Len(result[3]) = Len(decoder_inputs)
                 /\ \A i \in 1..Len(decoder_inputs) :
                      /\ Len(result[3][i]) = Len(decoder_inputs[i])
                      /\ \A j \in 1..Len(decoder_inputs[i]) :
                           result[3][i][j] =
                             (IF decoder_inputs[i][j] = 0 THEN 0 - 100
                                ELSE decoder_inputs[i][j])
        /\ batch.fn = "test_collate_fn" => Len(result) = 3

\* a batch of two examples of different lengths: the shorter one is padded
C15_Witness ==
  /\ pc = "returned"
  /\ batch.fn = "normal_collate_fn"
  /\ Len(batch.items) = 2
  /\ Len(batch.items[1].encoder_input_ids) = 1
  /\ Len(batch.items[2].encoder_input_ids) = 2
  /\ result[1][1] = <<1, 0>>
  /\ result[2][1] = <<1, 0>>

-----------------------------------------------------------------------------
(* extract_sql_query: the prefix step, and applying the function twice      *)

\* extract_sql_query with its step 5, the loop over prefixes, removed
extract_without_prefixes(s) ==
  LET m1 == sql_block_pattern(s)
      m2 == code_block_pattern(s)
      content == GroupStrip(s, m2)
      m3 == select_pattern(s)
  IN  IF m1.found THEN GroupStrip(s, m1)
      ELSE IF m2.found /\ LooksLikeSql(content) THEN content
      ELSE IF m3.found THEN GroupStrip(s, m3)
      ELSE IF LooksLikeSql(Strip(s)) THEN clean_end(s)
      ELSE clean_end(remove_wrapper(Strip(s)))

\* C19: step 5 never decides the result: a response that a step-5 pattern
\* matches is matched by the pattern of step 3 as well, so step 5 is reached
\* only by responses it does not match, and the function without step 5
\* returns the same value.
C19_PrefixStepNeverDecides ==
  (pc \in Steps \cup {"done", "raised"}) =>
    /\ decided # 5
    /\ prefix_search(response).found => select_pattern(response).found
    /\ (pc = "pattern5" \/ 5 \in consulted) => ~prefix_search(response).found
    /\ pc = "done" => result = extract_without_prefixes(response)

\* a response that begins with a label followed by a SELECT statement, which
\* a step-5 pattern matches, was decided by step 3
C19_Witness ==
  /\ pc = "done"
  /\ decided = 3
  /\ prefix_search(response).found
  /\ HasAtI(response, 1, <<"Q","u","e","r","y",":">>)

\* C20 as stated: extract_sql_query is idempotent, applying it to its own
\* result gives the result again.
C20_Idempotent ==
  pc = "done" => extract_sql_query(result) = result

\* C20: on a response without a code fence that step 3 decides,
\* extract_sql_query is idempotent: the SELECT span it returns is returned
\* unchanged when the function is applied to it again.
C20_SelectSpanIdempotent ==
  pc = "done" =>
    /\ result = extract_sql_query(response)
    /\ (decided = 3 /\ ~HasFence(response)) =>
         extract_sql_query(result) = result

\* step 3 cut a statement out of a longer response without a fence
C20_Witness ==
  /\ pc = "done"
  /\ decided = 3
  /\ ~HasFence(response)
  /\ HasSemi(response)
  /\ response[1] = "x"
  /\ Len(result) < Len(response)

====
